---------------------------- MODULE Spec2Model ----------------------------
(***************************************************************************)
(* The reminder engine of models/remainder.py (model remainder.record):    *)
(* the draft/confirmed/cancelled workflow, the write() override that logs  *)
(* purchase_deadline changes, the computed fields and the daily cron       *)
(* sweep _check_and_send_deadline_reminder.                                *)
(*                                                                         *)
(* A date is the number of days since 2025-01-01; date arithmetic is       *)
(* integer arithmetic, and strftime / to_date go through the Gregorian     *)
(* calendar.  A string the code parses or formats is a sequence of         *)
(* one-character strings.  The store is the table, a sequence indexed by   *)
(* record id; a call that raises leaves it as it was (the transaction is   *)
(* rolled back) and the exception is kept in lastError.                    *)
(***************************************************************************)
EXTENDS Integers, Sequences, FiniteSets, TLC

\* Most records of the store in Spec, SpecAudit and SpecCron.
MaxRecords == 2
\* Most records of the store in SpecLife.
LifeRecords == 1
\* today runs from 2025-01-01 (day 0) to day MaxDay.
MaxDay == 2
\* Most chatter entries write() may have posted in SpecAudit.
MaxMessages == 1

VARIABLES
    today,       \* date.today()
    template,    \* whether env.ref('remainder.email_template_remainder_deadline') is found
    recs,        \* the remainder.record table: recs[id] is the row of record id
    messages,    \* chatter entries posted by message_post, oldest first
    mails,       \* mails sent by template.send_mail, oldest first
    activities,  \* activities created by activity_schedule, oldest first
    lastCron,    \* the day the scheduler last ran the sweep, NoDate before the first run
    lastError,   \* the exception the last call raised, "" when it returned
    cancelledIds \* history: the ids of the records that have been cancelled at some time

vars == <<today, template, recs, messages, mails, activities, lastCron, lastError,
          cancelledIds>>

\* An unset Date field (False / None).
NoDate == -1
\* The color field before _compute_color has run in this transaction.
NoColor == -1

(***************************************************************************)
(* Strings and dates.                                                      *)
(***************************************************************************)
Digits == <<"0", "1", "2", "3", "4", "5", "6", "7", "8", "9">>

DigitChar(n) == Digits[n + 1]

DigitVal(c) == (CHOOSE i \in 1..10 : Digits[i] = c) - 1

\* int(s) of a string of decimal digits.
RECURSIVE int(_)
int(s) ==
    IF Len(s) = 0 THEN 0
    ELSE 10 * int(SubSeq(s, 1, Len(s) - 1)) + DigitVal(s[Len(s)])

Pad2(n) == <<DigitChar(n \div 10), DigitChar(n % 10)>>

Pad4(n) ==
    <<DigitChar(n \div 1000), DigitChar((n \div 100) % 10),
      DigitChar((n \div 10) % 10), DigitChar(n % 10)>>

IsLeap(y) == (y % 4 = 0 /\ y % 100 # 0) \/ y % 400 = 0

DaysInMonth(y, m) ==
    IF m = 2 THEN (IF IsLeap(y) THEN 29 ELSE 28)
    ELSE IF m \in {4, 6, 9, 11} THEN 30 ELSE 31

\* The calendar date n days after the first of month m of year y.
RECURSIVE FromOrdinal(_, _, _)
FromOrdinal(y, m, n) ==
    IF n < DaysInMonth(y, m) THEN [year |-> y, month |-> m, day |-> n + 1]
    ELSE IF m = 12 THEN FromOrdinal(y + 1, 1, n - DaysInMonth(y, m))
    ELSE FromOrdinal(y, m + 1, n - DaysInMonth(y, m))

\* The number of days from 2025-01-01 to y-m-d.
RECURSIVE ToOrdinal(_, _, _)
ToOrdinal(y, m, d) ==
    IF m > 1 THEN DaysInMonth(y, m - 1) + ToOrdinal(y, m - 1, d)
    ELSE IF y > 2025 THEN DaysInMonth(y - 1, 12) + ToOrdinal(y - 1, 12, d)
    ELSE d - 1

\* date.strftime('%Y-%m-%d')
strftime(d) ==
    LET c == FromOrdinal(2025, 1, d)
    IN  Pad4(c.year) \o <<"-">> \o Pad2(c.month) \o <<"-">> \o Pad2(c.day)

\* datetime.strptime(s, '%Y-%m-%d').date()
strptime(s) ==
    ToOrdinal(int(SubSeq(s, 1, 4)), int(SubSeq(s, 6, 7)), int(SubSeq(s, 9, 10)))

\* The values a caller may give for a Date field: a string, a date, False.
StrVal(s) == [t |-> "str", s |-> s]
DateVal(d) == [t |-> "date", d |-> d]
NoneVal == [t |-> "none"]

\* fields.Date.to_date(value)
to_date(value) ==
    IF value.t = "none" THEN NoDate
    ELSE IF value.t = "date" THEN value.d
    ELSE strptime(SubSeq(value.s, 1, 10))

(***************************************************************************)
(* Fields.                                                                 *)
(***************************************************************************)
States == {"draft", "confirmed", "cancelled"}

\* The keys of the reminder_days_before selection.
ReminderChoices ==
    {<<"7">>, <<"1", "5">>, <<"3", "0">>, <<"6", "0">>, <<"9", "0">>}

DefaultEmail == "your.personal.email@gmail.com"

Ids == 1..Len(recs)

\* A table on which the unique constraint was never installed.
product_partner_unique_not_installed(rs) == TRUE

\* _sql_constraints: unique(partner_number, product_name)
product_partner_unique(rs) ==
    \A i, j \in 1..Len(rs) :
        (i # j) => ~(/\ rs[i].partner_number = rs[j].partner_number
                     /\ rs[i].product_name = rs[j].product_name)

\* _compute_days_to_deadline, for one record
compute_days_to_deadline(rec, now) ==
    IF rec.purchase_deadline # NoDate THEN rec.purchase_deadline - now ELSE 0

\* _compute_color with the deadline rules ahead of the cancelled rule.
compute_color_state_last(rec, now) ==
    IF rec.purchase_deadline # NoDate /\ rec.purchase_deadline < now THEN 1
    ELSE IF rec.purchase_deadline # NoDate /\ rec.purchase_deadline - now <= 7 THEN 2
    ELSE IF rec.state = "cancelled" THEN 1
    ELSE IF rec.state = "confirmed" THEN 7
    ELSE IF rec.state = "draft" THEN 9
    ELSE 0

\* _compute_color, for one record
compute_color(rec, now) ==
    IF rec.state = "cancelled" THEN 1
    ELSE IF rec.purchase_deadline # NoDate /\ rec.purchase_deadline < now THEN 1
    ELSE IF rec.purchase_deadline # NoDate /\ rec.purchase_deadline - now <= 7 THEN 2
    ELSE IF rec.state = "confirmed" THEN 7
    ELSE IF rec.state = "draft" THEN 9
    ELSE 0

\* What a call leaves: the exception raised ("" for none), the table, the chatter.
Outcome(err, rs, msgs) == [err |-> err, recs |-> rs, messages |-> msgs]

(***************************************************************************)
(* create(vals): the field defaults, the required fields, the constraint.  *)
(***************************************************************************)
NewRecord(vals, now) ==
    LET r == [partner_number |-> vals.partner_number,
              product_name |-> vals.product_name,
              purchase_deadline |-> to_date(vals.purchase_deadline),
              reminder_recipient_email |-> vals.reminder_recipient_email,
              reminder_days_before |-> vals.reminder_days_before,
              user_id |-> vals.user_id,
              state |-> "draft",
              days_to_deadline |-> 0,
              color |-> NoColor]
    IN  [r EXCEPT !.days_to_deadline = compute_days_to_deadline(r, now)]

create(rs, msgs, vals, now) ==
    LET new == Append(rs, NewRecord(vals, now))
    IN  IF vals.reminder_days_before \notin ReminderChoices
        THEN Outcome("ValueError", rs, msgs)
        ELSE IF to_date(vals.purchase_deadline) = NoDate
        THEN Outcome("IntegrityError", rs, msgs)
        ELSE IF ~product_partner_unique(new)
        THEN Outcome("IntegrityError", rs, msgs)
        ELSE Outcome("", new, msgs)

(***************************************************************************)
(* write(vals) on the recordset ids.                                       *)
(***************************************************************************)
\* models.Model.write on one row: the values stored, the stored computed
\* field recomputed when its dependency is written, the cache invalidated.
super_write(rec, vals, now) ==
    LET r1 == IF "partner_number" \in DOMAIN vals
              THEN [rec EXCEPT !.partner_number = vals.partner_number] ELSE rec
        r2 == IF "product_name" \in DOMAIN vals
              THEN [r1 EXCEPT !.product_name = vals.product_name] ELSE r1
        r3 == IF "state" \in DOMAIN vals
              THEN [r2 EXCEPT !.state = vals.state, !.color = NoColor] ELSE r2
        r4 == IF "purchase_deadline" \in DOMAIN vals
              THEN [r3 EXCEPT !.purchase_deadline = to_date(vals.purchase_deadline),
                              !.color = NoColor]
              ELSE r3
    IN  IF "purchase_deadline" \in DOMAIN vals
        THEN [r4 EXCEPT !.days_to_deadline = compute_days_to_deadline(r4, now)]
        ELSE r4

\* ensure_one() asked only of a write that supplies purchase_deadline.
ensure_one_deadline_only(ids, vals) ==
    Cardinality(ids) = 1 \/ "purchase_deadline" \notin DOMAIN vals

\* self.ensure_one(), the first statement of write(vals)
ensure_one(ids, vals) == Cardinality(ids) = 1

\* The chatter entry posted whenever purchase_deadline is supplied.
deadline_modified_always(rec, vals) == "purchase_deadline" \in DOMAIN vals

\* The condition of the chatter entry in write(vals)
deadline_modified(rec, vals) ==
    /\ "purchase_deadline" \in DOMAIN vals
    /\ rec.purchase_deadline # NoDate
    /\ rec.purchase_deadline # to_date(vals.purchase_deadline)

\* The chatter entry "Purchase Deadline Modified: {old_date} -> {new_date}".
DeadlineMessage(id, old, new) ==
    [res_id |-> id, kind |-> "deadline_modified", old |-> old, new |-> new, user |-> ""]

write(rs, msgs, ids, vals, now) ==
    IF ~ensure_one(ids, vals) THEN Outcome("ValueError", rs, msgs)
    ELSE
    LET id == CHOOSE i \in ids : TRUE
        rec == rs[id]
        modified == deadline_modified(rec, vals)
        new_date == to_date(vals.purchase_deadline)
        posted ==
            IF modified
            THEN Append(msgs, DeadlineMessage(id, strftime(rec.purchase_deadline),
                                              strftime(new_date)))
            ELSE msgs
        new == [rs EXCEPT ![id] = super_write(rec, vals, now)]
    IN  IF modified /\ new_date = NoDate
        THEN Outcome("AttributeError", rs, msgs)
        ELSE IF "purchase_deadline" \in DOMAIN vals /\ new_date = NoDate
        THEN Outcome("IntegrityError", rs, msgs)
        ELSE IF ~product_partner_unique(new)
        THEN Outcome("IntegrityError", rs, msgs)
        ELSE Outcome("", new, posted)

(***************************************************************************)
(* The workflow buttons.                                                   *)
(***************************************************************************)
\* action_confirm: self.state = 'confirmed' is a write on the whole
\* recordset, and no write at all on an empty one.
action_confirm(rs, msgs, ids, now) ==
    IF ids = {} THEN Outcome("", rs, msgs)
    ELSE write(rs, msgs, ids, [state |-> "confirmed"], now)

Min(S) == CHOOSE x \in S : \A y \in S : x <= y

\* The loop of action_draft over the records still to do, in id order.
RECURSIVE draft_loop(_, _, _, _)
draft_loop(rs, msgs, todo, now) ==
    IF todo = {} THEN Outcome("", rs, msgs)
    ELSE LET id == Min(todo)
             w == write(rs, msgs, {id}, [state |-> "draft"], now)
         IN  IF rs[id].state = "cancelled" THEN Outcome("UserError", rs, msgs)
             ELSE IF w.err # "" THEN w
             ELSE draft_loop(w.recs, w.messages, todo \ {id}, now)

\* The loop of action_draft without its test of the state.
RECURSIVE draft_loop_unchecked(_, _, _, _)
draft_loop_unchecked(rs, msgs, todo, now) ==
    IF todo = {} THEN Outcome("", rs, msgs)
    ELSE LET id == Min(todo)
             w == write(rs, msgs, {id}, [state |-> "draft"], now)
         IN  IF w.err # "" THEN w
             ELSE draft_loop_unchecked(w.recs, w.messages, todo \ {id}, now)

action_draft_unchecked(rs, msgs, ids, now) ==
    LET r == draft_loop_unchecked(rs, msgs, ids, now)
    IN  IF r.err # "" THEN Outcome(r.err, rs, msgs) ELSE r

\* action_draft: the loop, and the rollback when it raises.
action_draft(rs, msgs, ids, now) ==
    LET r == draft_loop(rs, msgs, ids, now)
    IN  IF r.err # "" THEN Outcome(r.err, rs, msgs) ELSE r

(***************************************************************************)
(* The operations as actions.                                              *)
(***************************************************************************)
\* The table, the chatter and the exception a call leaves.
Apply(o) ==
    /\ recs' = o.recs
    /\ messages' = o.messages
    /\ lastError' = o.err
    /\ cancelledIds' =
          cancelledIds \cup {i \in 1..Len(o.recs) : o.recs[i].state = "cancelled"}

Create(vals) ==
    /\ Apply(create(recs, messages, vals, today))
    /\ UNCHANGED <<today, template, mails, activities, lastCron>>

Write(ids, vals) ==
    /\ Apply(write(recs, messages, ids, vals, today))
    /\ UNCHANGED <<today, template, mails, activities, lastCron>>

ActionConfirm(ids) ==
    /\ Apply(action_confirm(recs, messages, ids, today))
    /\ UNCHANGED <<today, template, mails, activities, lastCron>>

ActionDraft(ids) ==
    /\ Apply(action_draft(recs, messages, ids, today))
    /\ UNCHANGED <<today, template, mails, activities, lastCron>>

(***************************************************************************)
(* The daily sweep, _check_and_send_deadline_reminder.                     *)
(***************************************************************************)
\* The ids of a set in ascending order, the order search() returns.
RECURSIVE SortedSeq(_)
SortedSeq(S) == IF S = {} THEN <<>> ELSE <<Min(S)>> \o SortedSeq(S \ {Min(S)})

\* A search without the domain on state.
records_to_check_any_state(rs) == 1..Len(rs)

\* self.search([('state', 'in', ('draft', 'confirmed'))])
records_to_check(rs) == {i \in 1..Len(rs) : rs[i].state \in {"draft", "confirmed"}}

\* The test of one record with >= for ==.
should_remind_on_or_after(rec, now) ==
    /\ rec.purchase_deadline # NoDate
    /\ now >= rec.purchase_deadline - int(rec.reminder_days_before)

\* The test of one record in the loop of the sweep.
should_remind(rec, now) ==
    /\ rec.purchase_deadline # NoDate
    /\ now = rec.purchase_deadline - int(rec.reminder_days_before)

\* The loop of the sweep outside "if template:".
reminded_without_template(rs, now, tmpl) ==
    SortedSeq({i \in records_to_check(rs) : should_remind(rs[i], now)})

\* The records the sweep reminds, in order; none without the template.
reminded(rs, now, tmpl) ==
    IF tmpl
    THEN SortedSeq({i \in records_to_check(rs) : should_remind(rs[i], now)})
    ELSE <<>>

\* template.send_mail(record.id, email_values={'email_to': ...}, force_send=True)
ReminderMail(id, rec) ==
    [res_id |-> id, email_to |-> rec.reminder_recipient_email, force_send |-> TRUE]

\* record.activity_schedule('mail.mail_activity_data_todo', ...)
ReminderActivity(id, rec, now) ==
    [res_id |-> id,
     user_id |-> rec.user_id,
     summary |-> [product_name |-> rec.product_name,
                  days |-> int(rec.reminder_days_before)],
     note |-> [email |-> rec.reminder_recipient_email,
               before |-> strftime(rec.purchase_deadline)],
     date_deadline |-> now]

\* record.message_post(body="Deadline reminder email sent and activity created for ...")
ReminderMessage(id, rec) ==
    [res_id |-> id, kind |-> "reminder_sent", old |-> <<>>, new |-> <<>>,
     user |-> rec.user_id]

\* The scheduler runs the sweep at most once a day.
SchedulerDue == lastCron # today

Cron ==
    /\ SchedulerDue
    /\ LET q == reminded(recs, today, template)
       IN  /\ mails' = mails \o [k \in 1..Len(q) |-> ReminderMail(q[k], recs[q[k]])]
           /\ activities' = activities
                 \o [k \in 1..Len(q) |-> ReminderActivity(q[k], recs[q[k]], today)]
           /\ messages' = messages
                 \o [k \in 1..Len(q) |-> ReminderMessage(q[k], recs[q[k]])]
    /\ lastCron' = today
    /\ lastError' = ""
    /\ UNCHANGED <<today, template, recs, cancelledIds>>

\* Midnight: a new day, and no value cached from the day before.
Tick ==
    /\ today < MaxDay
    /\ today' = today + 1
    /\ recs' = [i \in 1..Len(recs) |-> [recs[i] EXCEPT !.color = NoColor]]
    /\ UNCHANGED <<template, messages, mails, activities, lastCron, lastError,
                   cancelledIds>>

\* The kanban view reads color: _compute_color runs for the record.
ReadColor(r) ==
    /\ recs' = [recs EXCEPT ![r].color = compute_color(recs[r], today)]
    /\ UNCHANGED <<today, template, messages, mails, activities, lastCron, lastError,
                   cancelledIds>>

(***************************************************************************)
(* Inputs.                                                                 *)
(***************************************************************************)
Partners == {"P-1001", "P-1002"}
Products == {"Antivirus", "Backup"}

\* The partner number given to the n-th record where the key is not at issue.
PartnerNo(n) == <<"P-1001", "P-1002", "P-1003", "P-1004">>[n]

\* The dates 2025-01-10 and 2025-02-01 as text.
Jan10 == <<"2", "0", "2", "5", "-", "0", "1", "-", "1", "0">>
Feb01 == <<"2", "0", "2", "5", "-", "0", "2", "-", "0", "1">>

\* 2025-01-10 as the web client sends it and 2025-02-01 as a date.
DeadlineInputs == {StrVal(Jan10), DateVal(31)}

CreateVals(pn, pr, dl, rdb, email, user) ==
    [partner_number |-> pn, product_name |-> pr, purchase_deadline |-> dl,
     reminder_days_before |-> rdb, reminder_recipient_email |-> email,
     user_id |-> user]

InitStore ==
    /\ today = 0
    /\ recs = <<>>
    /\ messages = <<>>
    /\ mails = <<>>
    /\ activities = <<>>
    /\ lastCron = NoDate
    /\ lastError = ""
    /\ cancelledIds = {}

(***************************************************************************)
(* Spec: creation, key edits and the workflow.                             *)
(***************************************************************************)
Init ==
    /\ InitStore
    /\ template = TRUE

CreateRecord ==
    /\ Len(recs) < MaxRecords
    /\ \E pn \in Partners, pr \in Products :
          Create(CreateVals(pn, pr, DateVal(31), <<"3", "0">>, DefaultEmail, "admin"))

EditPartner == \E r \in Ids, pn \in Partners : Write({r}, [partner_number |-> pn])

EditProduct == \E r \in Ids, pr \in Products : Write({r}, [product_name |-> pr])

Cancel == \E r \in Ids : Write({r}, [state |-> "cancelled"])

Confirm == \E ids \in SUBSET Ids : ActionConfirm(ids)

Draft == \E ids \in SUBSET Ids : ActionDraft(ids)

Next ==
    \/ CreateRecord
    \/ EditPartner
    \/ EditProduct
    \/ Cancel
    \/ Confirm
    \/ Draft

Spec == Init /\ [][Next]_vars

(***************************************************************************)
(* SpecAudit: deadline edits and updates of several records at once.       *)
(***************************************************************************)
AuditCreate ==
    /\ Len(recs) < MaxRecords
    /\ \E dl \in DeadlineInputs :
          Create(CreateVals(PartnerNo(Len(recs) + 1), "Antivirus", dl, <<"3", "0">>,
                            DefaultEmail, "admin"))

SetDeadline ==
    /\ Len(messages) < MaxMessages
    /\ \E ids \in SUBSET Ids \ {{}}, dl \in DeadlineInputs \cup {NoneVal} :
          Write(ids, [purchase_deadline |-> dl])

SetState ==
    \E ids \in SUBSET Ids \ {{}} : Write(ids, [state |-> "cancelled"])

NextAudit ==
    \/ AuditCreate
    \/ SetDeadline
    \/ SetState
    \/ Confirm
    \/ Draft

SpecAudit == Init /\ [][NextAudit]_vars

(***************************************************************************)
(* SpecCron: the sweep over a store of existing records, day after day.    *)
(***************************************************************************)
EmailNo(n) ==
    <<DefaultEmail, "renewals@example.com", "it@example.com", "cfo@example.com">>[n]
UserNo(n) == <<"admin", "demo", "sales", "support">>[n]

\* The n-th row of a store, its stored fields as of day 0.
StoredRecord(n, dl, rdb, st) ==
    [NewRecord(CreateVals(PartnerNo(n), "Antivirus", DateVal(dl), rdb,
                          EmailNo(n), UserNo(n)), 0)
        EXCEPT !.state = st]

InitLogs ==
    /\ today = 0
    /\ messages = <<>>
    /\ mails = <<>>
    /\ activities = <<>>
    /\ lastCron = NoDate
    /\ lastError = ""
    /\ cancelledIds = {i \in 1..Len(recs) : recs[i].state = "cancelled"}

\* Deadlines 2025-01-09, 2025-02-01 or none (a row older than the required
\* field); reminders 7 or 30 days before.
InitCron ==
    /\ template \in BOOLEAN
    /\ \E n \in 1..MaxRecords :
          \E f \in [1..n -> {NoDate, 8, 31} \X {<<"7">>, <<"3", "0">>} \X States] :
              recs = [i \in 1..n |-> StoredRecord(i, f[i][1], f[i][2], f[i][3])]
    /\ InitLogs

NextCron ==
    \/ Tick
    \/ Cron

SpecCron == InitCron /\ [][NextCron]_vars

(***************************************************************************)
(* SpecLife: records from their creation on, with the scheduler running.   *)
(***************************************************************************)
LifeCreate ==
    /\ Len(recs) < LifeRecords
    /\ \E dl \in {8, 31}, rdb \in {<<"7">>, <<"3", "0">>} :
          Create(CreateVals(PartnerNo(Len(recs) + 1), "Antivirus", DateVal(dl), rdb,
                            EmailNo(Len(recs) + 1), UserNo(Len(recs) + 1)))

NextLife ==
    \/ LifeCreate
    \/ Cancel
    \/ Confirm
    \/ Draft
    \/ Tick
    \/ Cron

SpecLife == Init /\ [][NextLife]_vars

(***************************************************************************)
(* SpecColor: the kanban color of one record, day after day.               *)
(***************************************************************************)
InitColor ==
    /\ template = TRUE
    /\ \E dl \in {NoDate} \cup 0..(MaxDay + 9), st \in States :
          recs = <<StoredRecord(1, dl, <<"3", "0">>, st)>>
    /\ InitLogs

ShowColor == \E r \in Ids : ReadColor(r)

NextColor ==
    \/ Tick
    \/ ShowColor

SpecColor == InitColor /\ [][NextColor]_vars

(***************************************************************************)
(* Properties.                                                             *)
(***************************************************************************)
\* C1: action_draft on a recordset holding a cancelled record raises
\* UserError and that record is still cancelled afterwards; on a recordset
\* of draft and confirmed records only (a single record in particular) it
\* returns and every record of it is draft.
C1_DraftRejectsCancelled ==
    [][\A ids \in SUBSET Ids :
          \/ /\ \A r \in ids :
                  recs[r].state = "cancelled" =>
                    lastError' = "UserError" /\ recs'[r].state = "cancelled"
             /\ (ids # {} /\ \A r \in ids : recs[r].state \in {"draft", "confirmed"}) =>
                  lastError' = "" /\ \A r \in ids : recs'[r].state = "draft"
          \/ ~ActionDraft(ids)]_vars

\* C1 witness: action_draft has just been refused on a cancelled record.
C1_Witness ==
    /\ lastError = "UserError"
    /\ \E r \in Ids : recs[r].state = "cancelled"

\* C2: a record that has once been cancelled is never draft again, whatever
\* action_confirm and action_draft calls follow.
C2_CancelledNeverDraft ==
    \A r \in Ids : r \in cancelledIds => recs[r].state # "draft"

\* No two rows of a table share (partner_number, product_name).
UniquePairs(rs) ==
    \A i \in 1..Len(rs) : \A j \in (i + 1)..Len(rs) :
        <<rs[i].partner_number, rs[i].product_name>>
            # <<rs[j].partner_number, rs[j].product_name>>

\* C8: no step leaves two records with the same (partner_number,
\* product_name); a create or a write of partner_number or product_name
\* that would make a duplicate raises and leaves the table as it was.
C8_UniquePair ==
    [][/\ UniquePairs(recs')
       /\ \A pn \in Partners, pr \in Products :
            LET taken(skip) == \E i \in Ids \ skip : /\ recs[i].partner_number = pn
                                                    /\ recs[i].product_name = pr
                refused == lastError' = "IntegrityError" /\ recs' = recs
            IN  /\ \/ ~taken({})
                   \/ refused
                   \/ ~Create(CreateVals(pn, pr, DateVal(31), <<"3", "0">>,
                                          DefaultEmail, "admin"))
                /\ \A r \in Ids :
                     /\ \/ recs[r].product_name # pr
                        \/ ~taken({r})
                        \/ refused
                        \/ ~Write({r}, [partner_number |-> pn])
                     /\ \/ recs[r].partner_number # pn
                        \/ ~taken({r})
                        \/ refused
                        \/ ~Write({r}, [product_name |-> pr])]_vars

\* C8 witness: a duplicate pair has just been refused with two records stored.
C8_Witness ==
    /\ lastError = "IntegrityError"
    /\ Len(recs) = 2
    /\ recs[1].product_name = recs[2].product_name

\* The date a deadline input stands for and its YYYY-MM-DD text, as tables.
InputDate(dl) == IF dl = StrVal(Jan10) THEN 9 ELSE 31
IsoText(d) == IF d = 9 THEN Jan10 ELSE Feb01

C10_Original ==
    [][\A ids \in SUBSET Ids :
          Cardinality(ids) >= 2 =>
            /\ ActionConfirm(ids) =>
                  lastError' = "" /\ \A r \in ids : recs'[r].state = "confirmed"
            /\ \A dl \in DeadlineInputs :
                  Write(ids, [purchase_deadline |-> dl]) =>
                    lastError' # "" /\ recs' = recs /\ messages' = messages]_vars

\* C10 amended: every update of two or more records at once is refused with
\* ValueError, nothing changed and nothing posted, whether it supplies
\* purchase_deadline or not (action_confirm on several records included);
\* action_confirm on exactly one record returns and confirms it.
C10_SingleRecordOnly ==
    [][/\ \A ids \in SUBSET Ids :
            Cardinality(ids) >= 2 =>
              ((\/ ActionConfirm(ids)
                \/ Write(ids, [state |-> "cancelled"])
                \/ \E dl \in DeadlineInputs : Write(ids, [purchase_deadline |-> dl]))
               => (lastError' = "ValueError" /\ recs' = recs /\ messages' = messages))
       /\ \A r \in Ids :
            ActionConfirm({r}) => (lastError' = "" /\ recs'[r].state = "confirmed")]_vars

\* C10 witness: an update of several records has just been refused.
C10_Witness ==
    /\ lastError = "ValueError"
    /\ Len(recs) >= 2

\* The days a reminder_days_before choice stands for, as a table.
DaysBefore(rdb) ==
    CASE rdb = <<"7">> -> 7
      [] rdb = <<"1", "5">> -> 15
      [] rdb = <<"3", "0">> -> 30
      [] rdb = <<"6", "0">> -> 60
      [] rdb = <<"9", "0">> -> 90

\* The entries a step appended to a log, and those of them about record r.
Added(before, after) == SubSeq(after, Len(before) + 1, Len(after))
About(r, log) == SelectSeq(log, LAMBDA e : e.res_id = r)

\* The day the reminder of record r is due.
TargetDate(r) == recs[r].purchase_deadline - DaysBefore(recs[r].reminder_days_before)

\* Record r is draft or confirmed, has a deadline, and today is its target date.
Due(r) ==
    /\ recs[r].state \in {"draft", "confirmed"}
    /\ recs[r].purchase_deadline # NoDate
    /\ today = TargetDate(r)

\* C3: with the template found, a run of the sweep appends for each record
\* that is draft or confirmed, has a deadline and whose target date is today
\* exactly one mail to its reminder_recipient_email, one activity due today
\* for its user_id and one chatter entry, and for every other record none of
\* the three; the logs are only appended to.
C3_SweepFiresOnTargetDay ==
    [][(Cron /\ template) =>
        /\ SubSeq(mails', 1, Len(mails)) = mails
        /\ SubSeq(activities', 1, Len(activities)) = activities
        /\ SubSeq(messages', 1, Len(messages)) = messages
        /\ \A r \in Ids :
              LET m == About(r, Added(mails, mails'))
                  a == About(r, Added(activities, activities'))
                  c == About(r, Added(messages, messages'))
              IN  IF Due(r)
                  THEN /\ Len(m) = 1
                       /\ m[1].email_to = recs[r].reminder_recipient_email
                       /\ Len(a) = 1
                       /\ a[1].user_id = recs[r].user_id
                       /\ a[1].date_deadline = today
                       /\ Len(c) = 1
                       /\ c[1].kind = "reminder_sent"
                  ELSE m = <<>> /\ a = <<>> /\ c = <<>>]_vars

\* C3 witness: the sweep ran today, skipped record 1, which has no deadline,
\* and reminded record 2.
C3_Witness ==
    /\ template
    /\ lastCron = today
    /\ Len(recs) >= 2
    /\ recs[1].state = "draft"
    /\ recs[1].purchase_deadline = NoDate
    /\ Due(2)
    /\ Len(mails) = 1 /\ mails[1].res_id = 2
    /\ Len(activities) = 1 /\ activities[1].date_deadline = today
    /\ Len(messages) = 1

\* C4: without the template a run of the sweep sends no mail, creates no
\* activity, posts no chatter entry, changes no record and raises nothing.
C4_NoTemplateNoEffect ==
    [][(Cron /\ ~template) =>
        /\ mails' = mails
        /\ activities' = activities
        /\ messages' = messages
        /\ recs' = recs
        /\ lastError' = ""]_vars

\* C4 witness: the sweep ran today without the template while a record was due.
C4_Witness ==
    /\ ~template
    /\ lastCron = today
    /\ \E r \in Ids : Due(r)
    /\ mails = <<>> /\ activities = <<>> /\ messages = <<>>

\* The reminders dispatched for record r so far.
Reminders(r) == Len(About(r, mails))

\* C5 as stated, in the form a finite run refutes: a record never has more
\* than one reminder, and has exactly one once its target date is behind
\* today (from then on none can be dispatched for it).
C5_Original ==
    \A r \in Ids :
        /\ Reminders(r) <= 1
        /\ today > TargetDate(r) => Reminders(r) = 1

\* C5 amended: with the sweep run at most once a day and no edit of
\* purchase_deadline or reminder_days_before, a record never has more than
\* one reminder.
C5_AtMostOnce == \A r \in Ids : Reminders(r) <= 1

\* C5 witness: a record was reminded, and the sweep has run again on a later
\* day without reminding it again.
C5_Witness ==
    \E r \in Ids :
        /\ Reminders(r) = 1
        /\ today > TargetDate(r)
        /\ lastCron = today

\* C6: the stored days_to_deadline of every record is purchase_deadline
\* minus today, and 0 without a deadline, in every reachable state.
C6_DaysToDeadlineCurrent ==
    \A r \in Ids :
        recs[r].days_to_deadline =
            IF recs[r].purchase_deadline # NoDate
            THEN recs[r].purchase_deadline - today
            ELSE 0

\* C9: a computed color is 1 for a cancelled record or a deadline before
\* today, 2 for a record not cancelled whose deadline is today or at most 7
\* days ahead, and otherwise (no deadline, or one more than 7 days ahead) 7
\* for a confirmed and 9 for a draft record.
C9_ColorPrecedence ==
    \A r \in Ids :
        LET dl == recs[r].purchase_deadline
            st == recs[r].state
            past == dl # NoDate /\ dl < today
            near == dl # NoDate /\ dl >= today /\ dl <= today + 7
        IN  recs[r].color # NoColor =>
              /\ (st = "cancelled" \/ past) => recs[r].color = 1
              /\ (st # "cancelled" /\ near) => recs[r].color = 2
              /\ (st = "confirmed" /\ ~past /\ ~near) => recs[r].color = 7
              /\ (st = "draft" /\ ~past /\ ~near) => recs[r].color = 9

\* C9 witness: a cancelled record with a deadline more than 7 days ahead has
\* been given color 1.
C9_Witness ==
    \E r \in Ids :
        /\ recs[r].state = "cancelled"
        /\ recs[r].purchase_deadline > today + 7
        /\ recs[r].color = 1

=============================================================================
